---- MODULE Spec2Model ----
(***************************************************************************)
(* A model of the claude-code-tts message bus.                             *)
(*                                                                         *)
(*   Spec      the queue directory, the producers (speak() and the         *)
(*             installer's restart message), the playback-state file and   *)
(*             one daemon running daemon_loop of scripts/tts-daemon.py.    *)
(*   SpecLock  the singleton lock, the PID file and the start / lockpick / *)
(*             shutdown life cycle of several daemon processes.            *)
(*                                                                         *)
(* Time is an integer clock; every time.time() call reads `now`, and Tick  *)
(* may or may not happen between two calls.                                *)
(***************************************************************************)
EXTENDS Integers, Sequences, FiniteSets, TLC

\* ---------------------------------------------------------------- bounds
MaxLen == 1
MaxMsgs == 2            \* messages enqueued in one behaviour
MaxTime == 2            \* last value of the clock
NumProcs == 2           \* daemon processes started in one behaviour

\* A daemon process is named by its PID.
Procs == 1..NumProcs

\* The process whose daemon_loop works the message bus.
Daemon == 1

\* The sessions whose hook calls speak().
Speakers == {"s1"}

\* get_queue_config(): the defaults overlaid with the "queue" object of
\* config.json, which here sets max_depth and max_age_seconds to 1 and
\* speaker_transition to any of its three values.
QueueConfigs ==
    {[max_depth |-> 1, max_age_seconds |-> 1, speaker_transition |-> t] :
        t \in {"chime", "announce", "none"}}

VARIABLES
    now,              \* the wall clock, time.time()
    queue,            \* QUEUE_DIR/*.json: a set of files, one per name
    spk,              \* per speak() caller: position in _speak_queued
    nmsgs,            \* messages created so far (also the text of the next)
    playback,         \* playback.json: [paused, audio_pid, current_message]
    config,           \* daemon_loop local: get_queue_config()
    pc,               \* the daemon's position in daemon_loop
    msg,              \* daemon_loop local: messages[0] (with its _file)
    interrupted,      \* daemon_loop local: get_interrupted_message()
    last_speaker,     \* daemon_loop local
    proc,             \* play_audio local: the Popen child
    synth,            \* a piper subprocess of the daemon is running
    chime,            \* an afplay chime subprocess of the daemon is running
    dying,            \* an audio child that got SIGKILL is not dead yet
    dequeued,         \* history: timestamps of the last two messages picked
    removed,          \* history: the files the last cleanup / depth step unlinked
    lpc,              \* per process: position in start_daemon / daemon_loop
    opts,             \* per process: [mode, lockpick] of its command line
    parent,           \* per process: the parent of `start` after the fork
    lock_holder,      \* the process holding flock(LOCK_FILE), or NoPid
    lock_file,        \* contents of daemon.lock (NoPid: empty)
    pid_file,         \* contents of daemon.pid (NoPid: no file)
    shutdown_requested, \* per process: _shutdown_requested
    sigterm_by,       \* history, per process: the lockpickers that sent it SIGTERM
    heartbeat,        \* daemon.heartbeat: absent, or the age of what it holds
    call,             \* per speak() caller: arguments, position, return value
    writer,           \* write_playback_state locals between its read and its rename
    stopcmd,          \* the `stop` command: position, the PID it read, return value
    conf_arg,         \* the config handed to save_config
    conf_file,        \* config.json: whether it exists, and its text
    conf_ret,         \* what the last load_config returned
    played            \* history: the texts of the messages played to completion

busVars == <<now, queue, spk, nmsgs, playback, config, pc, msg,
             interrupted, last_speaker, proc, synth, chime, dying, dequeued,
             removed>>

lockVars == <<lpc, opts, parent, lock_holder, lock_file, pid_file,
              shutdown_requested, sigterm_by>>

confVars == <<conf_arg, conf_file, conf_ret>>

vars == <<busVars, lockVars, heartbeat, call, writer, stopcmd, confVars, played>>

\* ------------------------------------------------------------ JSON values
NoMsg == [none |-> TRUE]            \* Python None where a dict may stand
Unset == [unset |-> TRUE]           \* the "UNSET" sentinel of write_playback_state
NoSpeaker == <<>>                   \* last_speaker = None
NullPid == 0                        \* audio_pid = None
ChildPid == 1                       \* proc.pid of an audio child

\* dict.get(k, d)
Get(m, k, d) == IF k \in DOMAIN m THEN m[k] ELSE d

\* The message speak() builds.
SpeakMessage(text, session, ts) ==
    [text |-> text, persona |-> "default", speed |-> 2,
     session |-> session, timestamp |-> ts]

\* The restart message the installer builds.
InstallerMessage(id, ts) ==
    [id |-> id, timestamp |-> ts, type |-> "control", session_id |-> "installer",
     text |-> id, pre_action |-> "drain", post_action |-> "restart",
     persona |-> "claude-prime"]

\* A file of the queue directory: its name, whether its bytes parse as JSON,
\* and the parsed value.
File(name, ok, json) == [name |-> name, ok |-> ok, json |-> json]

\* m.get("timestamp", 0)
Timestamp(f) == Get(f.json, "timestamp", 0)

\* The bytes of a file that is not UTF-8: open(f).read() raises
\* UnicodeDecodeError, a ValueError that is no JSONDecodeError.
Undecodable == [undecodable |-> TRUE]

\* A parsed JSON value that is not an object (an array, a string, a number).
NotAnObject == [array |-> TRUE]

\* isinstance(j, dict)
IsObject(j) == "array" \notin DOMAIN j

\* The field k of the object j holds a value of another JSON type than the
\* daemon reads it as (a string for the timestamp, a number for the text);
\* the object lists such fields under "mistyped".
Mistyped(j, k) == k \in Get(j, "mistyped", {})

\* text of a message with no text (texts are numbers here).
EmptyText == 0

\* One file that no producer of this repository writes: its name, and what it
\* may hold.
BadName == <<0, 1>>

BadFiles ==
    {File(BadName, FALSE, NoMsg),
     File(BadName, FALSE, Undecodable),
     File(BadName, TRUE, NotAnObject),
     File(BadName, TRUE, [text |-> 1, timestamp |-> 0, mistyped |-> {"timestamp"}]),
     File(BadName, TRUE, [text |-> 1, timestamp |-> 0, mistyped |-> {"text"}]),
     File(BadName, TRUE, [text |-> 1]),
     File(BadName, TRUE, [timestamp |-> 0])}

\* msg.get("type") == "control": the message is a control message.
IsControl(m) == Get(m.json, "type", "speech") = "control"

\* The directory without the entry `name` (unlink(missing_ok=True)).
Unlink(dir, name) == {f \in dir : f.name # name}

\* speak() callers whose open file descriptor is for an entry among `names`
\* lose the directory entry: what they write later is not in the queue.
Orphan(sp, names) ==
    [s \in Speakers |->
        IF sp[s].pc = "open" /\ sp[s].name \in names
        THEN [sp[s] EXCEPT !.linked = FALSE] ELSE sp[s]]

\* ------------------------------------------------------------- producers
IdleSpeaker == [pc |-> "idle", m |-> NoMsg, name |-> <<0, 0>>, linked |-> FALSE]

\* What speak() is called with: the session's mute flag, force, whether the
\* filtered text is blank, and config.mode.
SpeakArgs ==
    [muted : BOOLEAN, force : BOOLEAN, blank : BOOLEAN, mode : {"queue", "direct"}]

\* A call that is to be heard, in queue mode.
Audible == [muted |-> FALSE, force |-> FALSE, blank |-> FALSE, mode |-> "queue"]

\* No call of speak() has been made.
IdleCall == [args |-> Audible, at |-> "idle", ret |-> "none"]

\* A mute check that lets every call through.
MutedNever(a) == FALSE

\* current_session.muted and not force
Muted(a) == a.muted /\ ~a.force

\* daemon_is_healthy(): the heartbeat file exists and is less than 10 s old.
DaemonIsHealthy(hb) == hb \in {"fresh", "late"}

\* _speak_queued up to the message dict: the timestamp is read here.
SpeakBuild(s) ==
    /\ spk[s].pc = "idle"
    /\ nmsgs < MaxMsgs
    /\ nmsgs' = nmsgs + 1
    /\ spk' = [spk EXCEPT ![s] = [pc |-> "built", m |-> SpeakMessage(nmsgs + 1, s, now),
                                  name |-> <<0, 0>>, linked |-> FALSE]]
    /\ UNCHANGED <<now, queue, playback, config, pc, msg, interrupted,
                   last_speaker, proc, synth, chime, dying, dequeued, removed>>
    /\ UNCHANGED <<lockVars, heartbeat, writer, stopcmd, confVars, played>>

\* speak(text, force=...): the mute check, the blank text check, and the
\* routing on config.mode to _speak_queued or _speak_direct.
Speak(s, a) ==
    /\ spk[s].pc = "idle" /\ call[s].at = "idle"
    /\ IF Muted(a) \/ a.blank
       THEN /\ call' = [call EXCEPT ![s] = [args |-> a, at |-> "idle", ret |-> "false"]]
            /\ UNCHANGED <<busVars, lockVars, heartbeat, writer, stopcmd, confVars, played>>
       ELSE IF a.mode = "queue"
       THEN /\ SpeakBuild(s)
            /\ call' = [call EXCEPT ![s] = [args |-> a, at |-> "idle", ret |-> "none"]]
       ELSE /\ call' = [call EXCEPT ![s] = [args |-> a, at |-> "direct", ret |-> "none"]]
            /\ UNCHANGED <<busVars, lockVars, heartbeat, writer, stopcmd, confVars, played>>

\* _speak_direct: neither the persona's voice nor any other voice is there.
SpeakDirectNoVoice(s) ==
    /\ call[s].at = "direct"
    /\ call' = [call EXCEPT ![s] = [@ EXCEPT !.at = "idle", !.ret = "false"]]
    /\ UNCHANGED <<busVars, lockVars, heartbeat, writer, stopcmd, confVars, played>>

\* _speak_direct: subprocess.run(piper ...) is started.
SpeakDirectPiper(s) ==
    /\ call[s].at = "direct"
    /\ call' = [call EXCEPT ![s] = [@ EXCEPT !.at = "piper"]]
    /\ UNCHANGED <<busVars, lockVars, heartbeat, writer, stopcmd, confVars, played>>

\* _speak_direct: piper ended well, subprocess.run(afplay ...) is started.
SpeakDirectPlayer(s) ==
    /\ call[s].at = "piper"
    /\ call' = [call EXCEPT ![s] = [@ EXCEPT !.at = "player"]]
    /\ UNCHANGED <<busVars, lockVars, heartbeat, writer, stopcmd, confVars, played>>

\* _speak_direct: CalledProcessError from piper or from the player.
SpeakDirectFailed(s) ==
    /\ call[s].at \in {"piper", "player"}
    /\ call' = [call EXCEPT ![s] = [@ EXCEPT !.at = "idle", !.ret = "false"]]
    /\ UNCHANGED <<busVars, lockVars, heartbeat, writer, stopcmd, confVars, played>>

\* _speak_direct: the player ended well.
SpeakDirectPlayed(s) ==
    /\ call[s].at = "player"
    /\ call' = [call EXCEPT ![s] = [@ EXCEPT !.at = "idle", !.ret = "true"]]
    /\ UNCHANGED <<busVars, lockVars, heartbeat, writer, stopcmd, confVars, played>>

\* open(queue_file, "w"): the name is a second reading of the clock; the entry
\* exists from here on, empty (an existing file of that name is truncated).
SpeakOpen(s) ==
    /\ spk[s].pc = "built"
    /\ LET name == <<now, 0>> IN
        /\ queue' = Unlink(queue, name) \cup {File(name, FALSE, NoMsg)}
        /\ spk' = [spk EXCEPT ![s] = [@ EXCEPT !.pc = "open", !.name = name,
                                                !.linked = TRUE]]
    /\ UNCHANGED <<now, nmsgs, playback, config, pc, msg, interrupted,
                   last_speaker, proc, synth, chime, dying, dequeued, removed>>
    /\ UNCHANGED <<lockVars, heartbeat, call, writer, stopcmd, confVars, played>>

\* json.dump and close: the bytes are complete; speak() returns True.
SpeakDump(s) ==
    /\ spk[s].pc = "open"
    /\ queue' = IF spk[s].linked
                THEN Unlink(queue, spk[s].name) \cup {File(spk[s].name, TRUE, spk[s].m)}
                ELSE queue
    /\ spk' = [spk EXCEPT ![s] = IdleSpeaker]
    /\ call' = [call EXCEPT ![s] = [@ EXCEPT !.ret = "true"]]
    /\ UNCHANGED <<now, nmsgs, playback, config, pc, msg, interrupted,
                   last_speaker, proc, synth, chime, dying, dequeued, removed>>
    /\ UNCHANGED <<lockVars, heartbeat, writer, stopcmd, confVars, played>>

\* The producer dies between open and the end of json.dump.
SpeakCrash(s) ==
    /\ spk[s].pc = "open"
    /\ spk' = [spk EXCEPT ![s] = IdleSpeaker]
    /\ UNCHANGED <<now, queue, nmsgs, playback, config, pc, msg, interrupted,
                   last_speaker, proc, synth, chime, dying, dequeued, removed>>
    /\ UNCHANGED <<lockVars, heartbeat, call, writer, stopcmd, confVars, played>>

\* do_install: write <ts>_<id>.tmp, rename to .json.
InstallerEnqueue ==
    /\ nmsgs < MaxMsgs
    /\ nmsgs' = nmsgs + 1
    /\ queue' = queue \cup {File(<<now, nmsgs + 1>>, TRUE, InstallerMessage(nmsgs + 1, now))}
    /\ UNCHANGED <<now, spk, playback, config, pc, msg, interrupted,
                   last_speaker, proc, synth, chime, dying, dequeued, removed>>
    /\ UNCHANGED <<lockVars, heartbeat, call, writer, stopcmd, confVars, played>>

\* ------------------------------------------------------------ environment
Tick ==
    /\ now < MaxTime
    /\ now' = now + 1
    /\ UNCHANGED <<queue, spk, nmsgs, playback, config, pc, msg, interrupted,
                   last_speaker, proc, synth, chime, dying, dequeued, removed>>
    /\ UNCHANGED <<lockVars, heartbeat, call, writer, stopcmd, confVars, played>>

\* The pause / resume command writes "paused" into playback.json.
SetPaused(b) ==
    /\ playback.paused # b
    /\ playback' = [playback EXCEPT !.paused = b]
    /\ UNCHANGED <<now, queue, spk, nmsgs, config, pc, msg, interrupted,
                   last_speaker, proc, synth, chime, dying, dequeued, removed>>
    /\ UNCHANGED <<lockVars, heartbeat, call, writer, stopcmd, confVars, played>>

\* --------------------------------------------------- playback state store
\* read_playback_state() of a missing file.
DefaultState == [paused |-> FALSE, audio_pid |-> NullPid, current_message |-> NoMsg]

\* write_playback_state: the state read, with the arguments that are given put
\* in (audio_pid None and paused None mean "not given", as does the sentinel).
\* paused_arg is <<>> for None and <<b>> for a value.  updated_at has no reader.
WritePlaybackState(state, pid_arg, paused_arg, cm_arg) ==
    [paused |-> IF paused_arg # <<>> THEN paused_arg[1] ELSE state.paused,
     audio_pid |-> IF pid_arg # NullPid THEN pid_arg ELSE state.audio_pid,
     current_message |-> IF cm_arg # Unset THEN cm_arg ELSE state.current_message]

\* ------------------------------------------------------- queue management
Parseable(dir) == {f \in dir : f.ok}

\* list.sort(key=timestamp) of a glob in directory order: every arrangement of
\* S with ascending timestamps (ties in any order).
SortedByTimestamp(S) ==
    {q \in [1..Cardinality(S) -> S] :
        /\ \A i, j \in 1..Cardinality(S) : i # j => q[i] # q[j]
        /\ \A i, j \in 1..Cardinality(S) : i < j => Timestamp(q[i]) <= Timestamp(q[j])}

\* json.load(fp) of the file raises something else than JSONDecodeError / IOError.
LoadRaises(f) == ~f.ok /\ "undecodable" \in DOMAIN f.json

\* The body of cleanup_old_messages' loop raises on the file: the load does,
\* or msg.get does (no dict), or the comparison with the cutoff does.
CleanupRaises(f) ==
    \/ LoadRaises(f)
    \/ f.ok /\ (~IsObject(f.json) \/ Mistyped(f.json, "timestamp"))

\* The body of get_queue_messages' loop raises on the file: the load does, or
\* msg["_file"] = f does (no dict).
ReadRaises(f) == LoadRaises(f) \/ (f.ok /\ ~IsObject(f.json))

\* messages.sort(key=timestamp) raises: two keys of different types are compared.
SortRaises(S) ==
    Cardinality(S) >= 2 /\ \E f \in S : Mistyped(f.json, "timestamp")

\* The directories get_queue_messages can leave when it raises: the files it
\* met before the one that raised (any of the others, the glob has no order)
\* are unlinked if they do not parse; a raising sort comes after all of them.
QueueAfterRaisingRead(dir) ==
    IF \E f \in dir : ReadRaises(f)
    THEN {dir \ {f \in seen : ~f.ok} : seen \in SUBSET {f \in dir : ~ReadRaises(f)}}
    ELSE {Parseable(dir)}

GetQueueMessagesRaises(dir) ==
    (\E f \in dir : ReadRaises(f)) \/ SortRaises(Parseable(dir))

\* get_queue_messages: the files that do not parse are unlinked, the others
\* are returned sorted.
GetQueueMessages(dir) == SortedByTimestamp(Parseable(dir))

\* cleanup_old_messages: what is left of the directory.
CleanupOldMessages(dir, max_age_seconds, t) ==
    {f \in dir : f.ok /\ ~(Timestamp(f) < t - max_age_seconds)}

\* The directories cleanup_old_messages can leave when it raises: the files it
\* met before the one that raised are cleaned.
QueueAfterRaisingCleanup(dir, max_age_seconds, t) ==
    {dir \ (seen \ CleanupOldMessages(seen, max_age_seconds, t)) :
        seen \in SUBSET {f \in dir : ~CleanupRaises(f)}}

\* enforce_max_depth popping from the wrong end: the newest go.
EnforceDropTail(messages, max_depth) ==
    {messages[i] : i \in {k \in 1..Len(messages) : k <= max_depth}}

\* enforce_max_depth stopping one pop(0) early.
EnforceOneTooMany(messages, max_depth) ==
    {messages[i] : i \in {k \in 1..Len(messages) : k >= Len(messages) - max_depth}}

\* enforce_max_depth on the sorted list `messages`: pop(0) while it is longer
\* than max_depth; what is left of the directory.
EnforceMaxDepth(messages, max_depth) ==
    {messages[i] : i \in {k \in 1..Len(messages) : k > Len(messages) - max_depth}}

\* messages[-1]: the scan takes the other end of the sorted list.
Newest(messages) == messages[Len(messages)]

\* messages[0]
Oldest(messages) == messages[1]

\* The speaker key of a message.
SpeakerKey(m) ==
    <<Get(m.json, "session_id", "unknown"), Get(m.json, "project", "unknown")>>

\* current_msg_info
CurrentMsgInfo(m) ==
    [session_id |-> Get(m.json, "session_id", "unknown"),
     project |-> Get(m.json, "project", "unknown"),
     text |-> Get(m.json, "text", EmptyText),
     persona |-> Get(m.json, "persona", "claude-prime")]

Names(S) == {f.name : f \in S}

\* ------------------------------------------------ synthesis (generate_speech)
SynthSites ==
    {"startup_synth", "replay_synth", "main_synth", "cue_synth", "shutdown_synth"}

\* daemon_loop going on to the speaker transition whatever the synthesis of
\* the message returned.
AfterSynthCueAnyway(site, ok) ==
    CASE site = "startup_synth" -> IF ok THEN "startup_play" ELSE "top"
      [] site = "replay_synth"  -> IF ok THEN "replay_save" ELSE "top"
      [] site = "main_synth"    -> "transition"
      [] site = "cue_synth"     -> IF ok THEN "cue_play" ELSE "save"
      [] site = "shutdown_synth" -> IF ok THEN "shutdown_play" ELSE "release"

\* daemon_loop playing a re-rendered message without saving it again first.
AfterSynthSkippingSave(site, ok) ==
    CASE site = "startup_synth" -> IF ok THEN "startup_play" ELSE "top"
      [] site = "replay_synth"  -> IF ok THEN "replay_play" ELSE "top"
      [] site = "main_synth"    -> IF ok THEN "transition" ELSE "top"
      [] site = "cue_synth"     -> IF ok THEN "cue_play" ELSE "save"
      [] site = "shutdown_synth" -> IF ok THEN "shutdown_play" ELSE "release"

\* Where daemon_loop goes on after generate_speech returned `ok` at `site`.
AfterSynth(site, ok) ==
    CASE site = "startup_synth" -> IF ok THEN "startup_play" ELSE "top"
      [] site = "replay_synth"  -> IF ok THEN "replay_save" ELSE "top"
      [] site = "main_synth"    -> IF ok THEN "transition" ELSE "top"
      [] site = "cue_synth"     -> IF ok THEN "cue_play" ELSE "save"
      [] site = "shutdown_synth" -> IF ok THEN "shutdown_play" ELSE "release"

\* The caller of generate_speech leaving the file of a message that could not
\* be rendered where it is.
SynthReturnKeepingFile(ok) ==
    /\ pc' = AfterSynth(pc, ok)
    /\ UNCHANGED <<queue, spk, msg>>
    /\ interrupted' = IF pc = "replay_synth" /\ ~ok THEN NoMsg ELSE interrupted

\* What generate_speech's caller does with the result: a queue message whose
\* synthesis failed is unlinked; an interrupted message whose re-rendering
\* failed is forgotten (get_interrupted_message cleared it).
SynthReturn(ok) ==
    /\ pc' = AfterSynth(pc, ok)
    /\ IF pc = "main_synth" /\ ~ok
       THEN /\ queue' = Unlink(queue, msg.name)
            /\ spk' = Orphan(spk, {msg.name})
            /\ msg' = NoMsg
       ELSE UNCHANGED <<queue, spk, msg>>
    /\ interrupted' = IF pc = "replay_synth" /\ ~ok THEN NoMsg ELSE interrupted

\* piper is not on PATH, or neither the persona's voice nor the default voice
\* exists: generate_speech returns False without a subprocess.
SynthUnavailable ==
    /\ pc \in SynthSites /\ ~synth
    /\ SynthReturn(FALSE)
    /\ UNCHANGED <<now, nmsgs, playback, config, last_speaker, proc, synth,
                   chime, dying, dequeued, removed>>
    /\ UNCHANGED <<lockVars, heartbeat, call, writer, stopcmd, confVars, played>>

\* subprocess.run(["piper", ...]) starts.
SynthStart ==
    /\ pc \in SynthSites /\ ~synth
    /\ synth' = TRUE
    /\ UNCHANGED <<now, queue, spk, nmsgs, playback, config, pc, msg,
                   interrupted, last_speaker, proc, chime, dying, dequeued,
                   removed>>
    /\ UNCHANGED <<lockVars, heartbeat, call, writer, stopcmd, confVars, played>>

\* piper exits: zero with the output file there, or not.
SynthEnd ==
    /\ pc \in SynthSites /\ synth
    /\ synth' = FALSE
    /\ \E ok \in BOOLEAN : SynthReturn(ok)
    /\ UNCHANGED <<now, nmsgs, playback, config, last_speaker, proc, chime,
                   dying, dequeued, removed>>
    /\ UNCHANGED <<lockVars, heartbeat, call, writer, stopcmd, confVars, played>>

\* --------------------------------------------------- playback (play_audio)
PlaySites ==
    {"startup_play", "replay_play", "cue_play", "main_play", "shutdown_play"}

\* daemon_loop going on as after a completed playback whatever was_killed is.
AfterPlayIgnoringKill(site, was_killed) ==
    CASE site = "startup_play" -> "top"
      [] site = "replay_play"  -> "replay_clear"
      [] site = "cue_play"     -> "save"
      [] site = "main_play"    -> "main_clear"
      [] site = "shutdown_play" -> "release"

\* daemon_loop going back to the top of the loop after any playback, the
\* message's file left where it is.
AfterPlayToTop(site, was_killed) == "top"

\* Where daemon_loop goes on after play_audio returned (_, was_killed) at `site`.
AfterPlay(site, was_killed) ==
    CASE site = "startup_play" -> "top"
      [] site = "replay_play"  -> IF was_killed THEN "top" ELSE "replay_clear"
      [] site = "cue_play"     -> "save"
      [] site = "main_play"    -> IF was_killed THEN "main_killed" ELSE "main_clear"
      [] site = "shutdown_play" -> "release"

\* The audio_pid argument of the write_playback_state call on play_audio's
\* exit paths.
ExitPidArg == NullPid

\* An announcement's playback clearing current_message when it returns.
PlayReturnForgetting(was_killed) ==
    /\ pc' = AfterPlay(pc, was_killed)
    /\ playback' = WritePlaybackState(playback, ExitPidArg, <<>>,
                        IF pc \in {"startup_play", "shutdown_play"}
                        THEN NoMsg ELSE Unset)
    /\ interrupted' = IF pc = "replay_play" THEN NoMsg ELSE interrupted

PlayReturn(was_killed) ==
    /\ pc' = AfterPlay(pc, was_killed)
    /\ playback' = WritePlaybackState(playback, ExitPidArg, <<>>, Unset)
    /\ interrupted' = IF pc = "replay_play" THEN NoMsg ELSE interrupted

\* get_audio_player() finds no player: (False, False) at once, no state write.
PlayNoPlayer ==
    /\ pc \in PlaySites /\ proc = "none"
    /\ pc' = AfterPlay(pc, FALSE)
    /\ UNCHANGED <<now, queue, spk, nmsgs, playback, config, msg, interrupted,
                   last_speaker, proc, synth, chime, dying, dequeued, removed>>
    /\ UNCHANGED <<lockVars, heartbeat, call, writer, stopcmd, confVars, played>>

\* subprocess.Popen(player) and write_playback_state(audio_pid=proc.pid).
PlaySpawn ==
    /\ pc \in PlaySites /\ proc = "none"
    /\ proc' = "running"
    /\ playback' = WritePlaybackState(playback, ChildPid, <<>>, Unset)
    /\ UNCHANGED <<now, queue, spk, nmsgs, config, pc, msg, interrupted,
                   last_speaker, synth, chime, dying, dequeued, removed>>
    /\ UNCHANGED <<lockVars, heartbeat, call, writer, stopcmd, confVars, played>>

\* The audio child ends by itself, with exit status zero or not.
ChildExit ==
    /\ proc = "running"
    /\ \E rc \in {"exit0", "exit1"} : proc' = rc
    /\ UNCHANGED <<now, queue, spk, nmsgs, playback, config, pc, msg,
                   interrupted, last_speaker, synth, chime, dying, dequeued,
                   removed>>
    /\ UNCHANGED <<lockVars, heartbeat, call, writer, stopcmd, confVars, played>>

\* The poll loop finds proc.poll() not None: (returncode == 0, False).
PlayCompleted ==
    /\ pc \in PlaySites /\ proc \in {"exit0", "exit1"}
    /\ proc' = "none"
    /\ PlayReturn(FALSE)
    /\ UNCHANGED <<now, queue, spk, nmsgs, config, msg, last_speaker, synth,
                   chime, dying, dequeued, removed>>
    /\ UNCHANGED <<lockVars, heartbeat, call, writer, stopcmd, confVars, played>>

\* The poll loop finds the child running and "paused" set: terminate(),
\* wait(timeout=1); the child is gone by then, or kill() is sent and play_audio
\* returns without waiting for it.  (False, True).
PlayPauseKill ==
    /\ pc \in PlaySites /\ proc = "running"
    /\ playback.paused
    /\ proc' = "none"
    /\ \/ dying' = dying
       \/ dying' = TRUE
    /\ PlayReturn(TRUE)
    /\ UNCHANGED <<now, queue, spk, nmsgs, config, msg, last_speaker, synth,
                   chime, dequeued, removed>>
    /\ UNCHANGED <<lockVars, heartbeat, call, writer, stopcmd, confVars, played>>

\* A child that got SIGKILL is gone.
DyingExit ==
    /\ dying
    /\ dying' = FALSE
    /\ UNCHANGED <<now, queue, spk, nmsgs, playback, config, pc, msg,
                   interrupted, last_speaker, proc, synth, chime, dequeued,
                   removed>>
    /\ UNCHANGED <<lockVars, heartbeat, call, writer, stopcmd, confVars, played>>

\* ------------------------------------------------------ chime (play_chime)
\* subprocess.run(["afplay", "-v", "0.3", sound]) starts.
ChimeStart ==
    /\ pc = "chime" /\ ~chime
    /\ chime' = TRUE
    /\ UNCHANGED <<now, queue, spk, nmsgs, playback, config, pc, msg,
                   interrupted, last_speaker, proc, synth, dying, dequeued,
                   removed>>
    /\ UNCHANGED <<lockVars, heartbeat, call, writer, stopcmd, confVars, played>>

\* afplay exits: zero and play_chime returns, or not and the next sound is tried.
ChimeEnd ==
    /\ pc = "chime" /\ chime
    /\ chime' = FALSE
    /\ \E ok \in BOOLEAN : pc' = IF ok THEN "save" ELSE "chime"
    /\ UNCHANGED <<now, queue, spk, nmsgs, playback, config, msg, interrupted,
                   last_speaker, proc, synth, dying, dequeued, removed>>
    /\ UNCHANGED <<lockVars, heartbeat, call, writer, stopcmd, confVars, played>>

\* No system sound (left), or the player is not afplay: no chime.
ChimeSkip ==
    /\ pc = "chime" /\ ~chime
    /\ pc' = "save"
    /\ UNCHANGED <<now, queue, spk, nmsgs, playback, config, msg, interrupted,
                   last_speaker, proc, synth, chime, dying, dequeued, removed>>
    /\ UNCHANGED <<lockVars, heartbeat, call, writer, stopcmd, confVars, played>>

\* ------------------------------------------------- scheduler (daemon_loop)
\* Loop top: write_heartbeat(), then
\* cleanup_old_messages(config["max_age_seconds"]).
Cleanup ==
    /\ pc = "top"
    /\ ~shutdown_requested[Daemon]
    /\ heartbeat' = "fresh"
    /\ IF \E f \in queue : CleanupRaises(f)
       THEN /\ queue' \in QueueAfterRaisingCleanup(queue, config.max_age_seconds, now)
            /\ pc' = "error"
       ELSE /\ queue' = CleanupOldMessages(queue, config.max_age_seconds, now)
            /\ pc' = "enforce"
    /\ spk' = Orphan(spk, Names(queue \ queue'))
    /\ removed' = queue \ queue'
    /\ UNCHANGED <<now, nmsgs, playback, config, msg, interrupted,
                   last_speaker, proc, synth, chime, dying, dequeued>>
    /\ UNCHANGED <<lockVars, call, writer, stopcmd, confVars, played>>

\* enforce_max_depth(config["max_depth"])
Enforce ==
    /\ pc = "enforce"
    /\ IF GetQueueMessagesRaises(queue)
       THEN /\ queue' \in QueueAfterRaisingRead(queue)
            /\ pc' = "error"
       ELSE /\ \E messages \in GetQueueMessages(queue) :
                    queue' = EnforceMaxDepth(messages, config.max_depth)
            /\ pc' = "check_pause"
    /\ spk' = Orphan(spk, Names(queue \ queue'))
    /\ removed' = queue \ queue'
    /\ UNCHANGED <<now, nmsgs, playback, config, msg, interrupted,
                   last_speaker, proc, synth, chime, dying, dequeued>>
    /\ UNCHANGED <<lockVars, heartbeat, call, writer, stopcmd, confVars, played>>

\* The pause check going on to the replay whatever `paused` is.
AfterPauseCheckIgnoring(paused) == "get_interrupted"

\* if state.get("paused"): sleep, continue.
AfterPauseCheck(paused) == IF paused THEN "top" ELSE "get_interrupted"

\* state = read_playback_state(); paused: sleep and continue.
CheckPause ==
    /\ pc = "check_pause"
    /\ pc' = AfterPauseCheck(playback.paused)
    /\ removed' = {}
    /\ UNCHANGED <<now, queue, spk, nmsgs, playback, config, msg, interrupted,
                   last_speaker, proc, synth, chime, dying, dequeued>>
    /\ UNCHANGED <<lockVars, heartbeat, call, writer, stopcmd, confVars, played>>

\* interrupted = get_interrupted_message(): current_message, cleared if set.
GetInterrupted ==
    /\ pc = "get_interrupted"
    /\ IF playback.current_message # NoMsg
       THEN /\ interrupted' = playback.current_message
            /\ playback' = WritePlaybackState(playback, NullPid, <<>>, NoMsg)
            /\ pc' = "replay_synth"
       ELSE /\ pc' = "scan"
            /\ UNCHANGED <<interrupted, playback>>
    /\ UNCHANGED <<now, queue, spk, nmsgs, config, msg, last_speaker, proc,
                   synth, chime, dying, dequeued, removed>>
    /\ UNCHANGED <<lockVars, heartbeat, call, writer, stopcmd, confVars, played>>

\* Replay: write_playback_state(current_message=interrupted) before playing.
ReplaySave ==
    /\ pc = "replay_save"
    /\ playback' = WritePlaybackState(playback, NullPid, <<>>, interrupted)
    /\ pc' = "replay_play"
    /\ UNCHANGED <<now, queue, spk, nmsgs, config, msg, interrupted,
                   last_speaker, proc, synth, chime, dying, dequeued, removed>>
    /\ UNCHANGED <<lockVars, heartbeat, call, writer, stopcmd, confVars, played>>

\* Replay completed: clear_current_message().
ReplayClear ==
    /\ pc = "replay_clear"
    /\ playback' = WritePlaybackState(playback, NullPid, <<>>, NoMsg)
    /\ pc' = "top"
    /\ UNCHANGED <<now, queue, spk, nmsgs, config, msg, interrupted,
                   last_speaker, proc, synth, chime, dying, dequeued, removed>>
    /\ UNCHANGED <<lockVars, heartbeat, call, writer, stopcmd, confVars, played>>

\* messages = get_queue_messages(); none: sleep and continue; else the oldest
\* is taken: text.strip() raises when the text is no string, a message with
\* blank text is unlinked and skipped, any other goes to the synthesis.
Scan ==
    /\ pc = "scan"
    /\ IF GetQueueMessagesRaises(queue)
       THEN /\ queue' \in QueueAfterRaisingRead(queue)
            /\ pc' = "error"
            /\ UNCHANGED <<msg, dequeued>>
       ELSE \E messages \in GetQueueMessages(queue) :
            IF Len(messages) = 0
            THEN /\ queue' = Parseable(queue)
                 /\ pc' = "top"
                 /\ UNCHANGED <<msg, dequeued>>
            ELSE IF Mistyped(Oldest(messages).json, "text")
            THEN /\ queue' = Parseable(queue)
                 /\ pc' = "error"
                 /\ UNCHANGED <<msg, dequeued>>
            ELSE IF Get(Oldest(messages).json, "text", EmptyText) = EmptyText
            THEN /\ queue' = Unlink(Parseable(queue), Oldest(messages).name)
                 /\ pc' = "top"
                 /\ UNCHANGED <<msg, dequeued>>
            ELSE /\ queue' = Parseable(queue)
                 /\ msg' = Oldest(messages)
                 /\ dequeued' = IF Len(dequeued) < 2
                                THEN Append(dequeued, Timestamp(Oldest(messages)))
                                ELSE <<dequeued[2], Timestamp(Oldest(messages))>>
                 /\ pc' = "main_synth"
    /\ spk' = Orphan(spk, Names(queue \ queue'))
    /\ UNCHANGED <<now, nmsgs, playback, config, interrupted, last_speaker,
                   proc, synth, chime, dying, removed>>
    /\ UNCHANGED <<lockVars, heartbeat, call, writer, stopcmd, confVars, played>>

\* except Exception: log, time.sleep(1), and the loop goes on.
Recover ==
    /\ pc = "error"
    /\ pc' = "top"
    /\ UNCHANGED <<now, queue, spk, nmsgs, playback, config, msg, interrupted,
                   last_speaker, proc, synth, chime, dying, dequeued, removed>>
    /\ UNCHANGED <<lockVars, heartbeat, call, writer, stopcmd, confVars, played>>

\* Speaker transition: a cue when the speaker changed.
Transition ==
    /\ pc = "transition"
    /\ pc' = IF last_speaker # NoSpeaker /\ last_speaker # SpeakerKey(msg)
             THEN CASE config.speaker_transition = "chime"    -> "chime"
                    [] config.speaker_transition = "announce" -> "cue_synth"
                    [] OTHER                   -> "save"
             ELSE "save"
    /\ UNCHANGED <<now, queue, spk, nmsgs, playback, config, msg, interrupted,
                   last_speaker, proc, synth, chime, dying, dequeued, removed>>
    /\ UNCHANGED <<lockVars, heartbeat, call, writer, stopcmd, confVars, played>>

\* last_speaker = speaker_key; write_playback_state(current_message=info).
SaveCurrent ==
    /\ pc = "save"
    /\ last_speaker' = SpeakerKey(msg)
    /\ playback' = WritePlaybackState(playback, NullPid, <<>>, CurrentMsgInfo(msg))
    /\ pc' = "main_play"
    /\ UNCHANGED <<now, queue, spk, nmsgs, config, msg, interrupted, proc,
                   synth, chime, dying, dequeued, removed>>
    /\ UNCHANGED <<lockVars, heartbeat, call, writer, stopcmd, confVars, played>>

\* was_killed: the queue file is unlinked, current_message stays.
MainKilled ==
    /\ pc = "main_killed"
    /\ queue' = Unlink(queue, msg.name)
    /\ spk' = Orphan(spk, {msg.name})
    /\ msg' = NoMsg
    /\ pc' = "top"
    /\ UNCHANGED <<now, nmsgs, playback, config, interrupted, last_speaker,
                   proc, synth, chime, dying, dequeued, removed>>
    /\ UNCHANGED <<lockVars, heartbeat, call, writer, stopcmd, confVars, played>>

\* Completed: clear_current_message() ...
MainClear ==
    /\ pc = "main_clear"
    /\ playback' = WritePlaybackState(playback, NullPid, <<>>, NoMsg)
    /\ pc' = "main_unlink"
    /\ UNCHANGED <<now, queue, spk, nmsgs, config, msg, interrupted,
                   last_speaker, proc, synth, chime, dying, dequeued, removed>>
    /\ UNCHANGED <<lockVars, heartbeat, call, writer, stopcmd, confVars, played>>

\* ... then msg_file.unlink(missing_ok=True).
MainUnlink ==
    /\ pc = "main_unlink"
    /\ queue' = Unlink(queue, msg.name)
    /\ spk' = Orphan(spk, {msg.name})
    /\ msg' = NoMsg
    /\ pc' = "top"
    /\ UNCHANGED <<now, nmsgs, playback, config, interrupted, last_speaker,
                   proc, synth, chime, dying, dequeued, removed>>
    /\ UNCHANGED <<lockVars, heartbeat, call, writer, stopcmd, confVars, played>>

\* ------------------------------------------------ singleton lock, PID file
NoPid == 0
NoOpts == [mode |-> "none", lockpick |-> FALSE]

\* The process exists (os.kill(pid, 0) succeeds).
Alive(l, q) ==
    l[q] \in {"child", "acquire", "lockpick_sleep", "install", "running",
              "shutting", "released"}

\* handle_shutdown is installed for SIGTERM and SIGINT.
Handles(l, q) == l[q] \in {"running", "shutting", "released"}

\* is_daemon_running(): <<is_running, what is left of the PID file>>; a PID
\* file naming a dead process is unlinked.
IsDaemonRunning(l, pf) ==
    IF pf = NoPid THEN <<FALSE, NoPid>>
    ELSE IF Alive(l, pf) THEN <<TRUE, pf>> ELSE <<FALSE, NoPid>>

\* The PID file after the process ends through sys.exit or a return from
\* main: start_daemon registered atexit(PID_FILE.unlink), run_foreground did not.
AtExit(o, pf) == IF o.mode = "start" THEN NoPid ELSE pf

\* flock succeeding whoever holds the lock.
LockAlwaysFree(holder) == TRUE

\* fcntl.flock(_lock_fd, LOCK_EX | LOCK_NB) succeeds.
LockFree(holder) == holder = NoPid

\* A command line: `start` or `--foreground`, with or without --lockpick.
Launch(p, mode, lockpick) ==
    /\ lpc[p] = "idle"
    /\ \A q \in Procs : q < p => lpc[q] # "idle"
    /\ opts' = [opts EXCEPT ![p] = [mode |-> mode, lockpick |-> lockpick]]
    /\ lpc' = [lpc EXCEPT ![p] = "check"]
    /\ UNCHANGED <<parent, lock_holder, lock_file, pid_file, shutdown_requested,
                   sigterm_by>>
    /\ UNCHANGED <<busVars, heartbeat, call, writer, stopcmd, confVars, played>>

\* start_daemon / run_foreground: without lockpick a running daemon (by the
\* PID file) ends the command; start_daemon then forks.
CheckRunning(p) ==
    /\ lpc[p] = "check"
    /\ LET r == IF opts[p].lockpick THEN <<FALSE, pid_file>>
                ELSE IsDaemonRunning(lpc, pid_file)
           go == IF opts[p].mode = "start" THEN "child" ELSE "acquire"
       IN /\ pid_file' = r[2]
          /\ lpc' = [lpc EXCEPT ![p] = IF r[1] THEN "refused" ELSE go]
          /\ parent' = [parent EXCEPT ![p] =
                            IF ~r[1] /\ opts[p].mode = "start" THEN "waiting" ELSE @]
    /\ UNCHANGED <<opts, lock_holder, lock_file, shutdown_requested, sigterm_by>>
    /\ UNCHANGED <<busVars, heartbeat, call, writer, stopcmd, confVars, played>>

\* The parent of `start`: sleep(0.5), is_daemon_running(), report.
ParentCheck(p) ==
    /\ parent[p] = "waiting"
    /\ pid_file' = IsDaemonRunning(lpc, pid_file)[2]
    /\ parent' = [parent EXCEPT ![p] = "done"]
    /\ UNCHANGED <<lpc, opts, lock_holder, lock_file, shutdown_requested, sigterm_by>>
    /\ UNCHANGED <<busVars, heartbeat, call, writer, stopcmd, confVars, played>>

\* The daemonized child of `start`: PID_FILE.write_text(str(os.getpid())).
ChildWritePid(p) ==
    /\ lpc[p] = "child"
    /\ pid_file' = p
    /\ lpc' = [lpc EXCEPT ![p] = "acquire"]
    /\ UNCHANGED <<opts, parent, lock_holder, lock_file, shutdown_requested, sigterm_by>>
    /\ UNCHANGED <<busVars, heartbeat, call, writer, stopcmd, confVars, played>>

\* acquire_lock succeeded: the PID goes into the lock file.
Acquired(p) ==
    /\ lock_holder' = p
    /\ lock_file' = p
    /\ lpc' = [lpc EXCEPT ![p] = "install"]
    /\ UNCHANGED <<opts, parent, pid_file, shutdown_requested, sigterm_by>>

\* acquire_lock returned False: daemon_loop calls sys.exit(1).  The lock file
\* was opened with "w" and is left empty.
Refused(p) ==
    /\ lock_file' = NoPid
    /\ lpc' = [lpc EXCEPT ![p] = "failed"]
    /\ pid_file' = AtExit(opts[p], pid_file)
    /\ UNCHANGED <<opts, parent, lock_holder, shutdown_requested, sigterm_by>>

\* os.kill(old_pid, SIGTERM) by the lockpicker p: a process with the handler
\* gets its flag set, one without it dies of the signal (its lock goes with it).
LockpickSignal(p, old_pid) ==
    /\ sigterm_by' = [sigterm_by EXCEPT ![old_pid] = @ \cup {p}]
    /\ lock_file' = NoPid
    /\ IF Handles(lpc, old_pid)
       THEN /\ shutdown_requested' = [shutdown_requested EXCEPT ![old_pid] = TRUE]
            /\ lpc' = [lpc EXCEPT ![p] = "lockpick_sleep"]
            /\ UNCHANGED lock_holder
       ELSE /\ lpc' = IF old_pid = p THEN [lpc EXCEPT ![p] = "killed"]
                      ELSE [lpc EXCEPT ![old_pid] = "killed", ![p] = "lockpick_sleep"]
            /\ lock_holder' = IF lock_holder = old_pid THEN NoPid ELSE lock_holder
            /\ UNCHANGED shutdown_requested
    /\ UNCHANGED <<opts, parent, pid_file>>

\* daemon_loop: acquire_lock(lockpick).
AcquireLock(p) ==
    /\ lpc[p] = "acquire"
    /\ IF LockFree(lock_holder) THEN Acquired(p)
       ELSE IF opts[p].lockpick /\ pid_file # NoPid /\ Alive(lpc, pid_file)
            THEN LockpickSignal(p, pid_file)
            ELSE Refused(p)
    /\ UNCHANGED <<busVars, heartbeat, call, writer, stopcmd, confVars, played>>

\* acquire_lock after sleep(1): the second flock.
LockpickRetry(p) ==
    /\ lpc[p] = "lockpick_sleep"
    /\ IF LockFree(lock_holder) THEN Acquired(p) ELSE Refused(p)
    /\ UNCHANGED <<busVars, heartbeat, call, writer, stopcmd, confVars, played>>

\* The handlers are installed, PID_FILE.write_text(str(os.getpid())) and
\* write_heartbeat(); the startup announcement follows and the loop runs.
Install(p) ==
    /\ lpc[p] = "install"
    /\ pid_file' = p
    /\ lpc' = [lpc EXCEPT ![p] = "running"]
    /\ UNCHANGED <<opts, parent, lock_holder, lock_file, shutdown_requested, sigterm_by>>
    /\ UNCHANGED <<busVars, call, writer, stopcmd, confVars, played>>
    /\ heartbeat' = "fresh"

\* SIGTERM from `stop`, or SIGINT from the terminal, to a daemon in its loop.
Interrupt(p) ==
    /\ lpc[p] = "running"
    /\ ~shutdown_requested[p]
    /\ shutdown_requested' = [shutdown_requested EXCEPT ![p] = TRUE]
    /\ UNCHANGED <<lpc, opts, parent, lock_holder, lock_file, pid_file, sigterm_by>>
    /\ UNCHANGED <<busVars, heartbeat, call, writer, stopcmd, confVars, played>>

\* `while not _shutdown_requested` ends: the shutdown announcement is spoken.
LeaveLoop(p) ==
    /\ lpc[p] = "running"
    /\ shutdown_requested[p]
    /\ lpc' = [lpc EXCEPT ![p] = "shutting"]
    /\ UNCHANGED <<opts, parent, lock_holder, lock_file, pid_file, shutdown_requested,
                   sigterm_by>>
    /\ UNCHANGED <<busVars, heartbeat, call, writer, stopcmd, confVars, played>>

\* HEARTBEAT_FILE.unlink(); release_lock().
ReleaseLock(p) ==
    /\ lpc[p] = "shutting"
    /\ lock_holder' = IF lock_holder = p THEN NoPid ELSE lock_holder
    /\ lpc' = [lpc EXCEPT ![p] = "released"]
    /\ UNCHANGED <<opts, parent, lock_file, pid_file, shutdown_requested, sigterm_by>>
    /\ UNCHANGED <<busVars, call, writer, stopcmd, confVars, played>>
    /\ heartbeat' = "absent"

\* daemon_loop returned: the process ends.
ProcessExit(p) ==
    /\ lpc[p] = "released"
    /\ pid_file' = AtExit(opts[p], pid_file)
    /\ lpc' = [lpc EXCEPT ![p] = "exited"]
    /\ UNCHANGED <<opts, parent, lock_holder, lock_file, shutdown_requested, sigterm_by>>
    /\ UNCHANGED <<busVars, heartbeat, call, writer, stopcmd, confVars, played>>

\* ------------------------------------- the installer's config.json
\* JSON values as Python holds them: a type and a value.
JNull == [t |-> "null", v |-> 0]
JBool(b) == [t |-> "bool", v |-> b]
JInt(n) == [t |-> "int", v |-> n]
JFloat(n) == [t |-> "float", v |-> n]
JStr(s) == [t |-> "str", v |-> s]
JList(items) == [t |-> "list", v |-> items]
\* A dict: its items in insertion order, each <<key, value>>.
JDict(items) == [t |-> "dict", v |-> items]

\* Nothing was loaded yet.
NotLoaded == [t |-> "none", v |-> 0]

\* DEFAULT_CONFIG, its first entries.
DEFAULT_CONFIG ==
    JDict(<< <<"version", JInt(1)>>, <<"mode", JStr("direct")>>,
             <<"muted", JBool(FALSE)>>,
             <<"queue", JDict(<< <<"max_depth", JInt(20)>> >>)>> >>)

\* The sequences over S of length at most n.
SeqUpTo(S, n) == UNION {[1..k -> S] : k \in 0..n}

JsonScalars == {JNull, JBool(TRUE), JInt(1), JFloat(2), JStr("a")}
JsonKeys == {"version", "mode"}

\* The orders in which a dict can hold some of the keys.
KeyOrders == {ks \in SeqUpTo(JsonKeys, 2) : \A i, j \in DOMAIN ks : i # j => ks[i] # ks[j]}

\* The dicts with values from V.
DictsOver(V) ==
    UNION {{JDict([i \in DOMAIN ks |-> <<ks[i], vs[i]>>]) : vs \in [DOMAIN ks -> V]} :
            ks \in KeyOrders}

\* The values a config holds: scalars, lists of scalars, dicts of scalars.
JsonValues ==
    JsonScalars \cup {JList(q) : q \in SeqUpTo(JsonScalars, MaxLen)}
        \cup DictsOver(JsonScalars)

\* The configs: dicts of such values.
JsonConfigs == DictsOver(JsonValues)

\* The text json.dump writes, as its tokens.
Tok(k, v) == [k |-> k, v |-> v]
Punct(c) == Tok(c, 0)

\* json.dump writing a float without its fraction.
ScalarTokenIntegral(j) == Tok(IF j.t = "float" THEN "int" ELSE j.t, j.v)

\* json.dump of None, True / False, an int, a float, a str.
ScalarToken(j) == Tok(j.t, j.v)

RECURSIVE Dump(_), DumpItems(_, _), DumpMembers(_, _)
\* json.dump(config, f, indent=2): the encoder's output for a value.
Dump(j) ==
    CASE j.t = "list" -> <<Punct("[")>> \o DumpItems(j.v, 1) \o <<Punct("]")>>
      [] j.t = "dict" -> <<Punct("{")>> \o DumpMembers(j.v, 1) \o <<Punct("}")>>
      [] OTHER -> <<ScalarToken(j)>>

\* The items of a list from the i-th on, with commas between them.
DumpItems(items, i) ==
    IF i > Len(items) THEN <<>>
    ELSE (IF i > 1 THEN <<Punct(",")>> ELSE <<>>)
            \o Dump(items[i]) \o DumpItems(items, i + 1)

\* The members of a dict from the i-th on: "key": value.
DumpMembers(items, i) ==
    IF i > Len(items) THEN <<>>
    ELSE (IF i > 1 THEN <<Punct(",")>> ELSE <<>>)
            \o <<Tok("str", items[i][1]), Punct(":")>> \o Dump(items[i][2])
            \o DumpMembers(items, i + 1)

\* A dict with the item <<key, value>> put in as Python does: a key that is
\* there keeps its place and gets the new value.
DictSet(items, key, value) ==
    IF \E i \in DOMAIN items : items[i][1] = key
    THEN [i \in DOMAIN items |-> IF items[i][1] = key THEN <<key, value>> ELSE items[i]]
    ELSE Append(items, <<key, value>>)

RECURSIVE ParseValue(_), ParseItems(_, _), ParseMembers(_, _)
\* json.load: the decoder on the tokens ts; the value and the tokens left.
ParseValue(ts) ==
    LET h == Head(ts) IN
    CASE h.k = "[" -> ParseItems(Tail(ts), <<>>)
      [] h.k = "{" -> ParseMembers(Tail(ts), <<>>)
      [] OTHER -> [val |-> [t |-> h.k, v |-> h.v], rest |-> Tail(ts)]

\* The decoder inside a list, acc the items so far.
ParseItems(ts, acc) ==
    LET h == Head(ts) IN
    IF h.k = "]" THEN [val |-> JList(acc), rest |-> Tail(ts)]
    ELSE IF h.k = "," THEN ParseItems(Tail(ts), acc)
    ELSE LET r == ParseValue(ts) IN ParseItems(r.rest, Append(acc, r.val))

\* The decoder inside an object, acc the members so far.
ParseMembers(ts, acc) ==
    LET h == Head(ts) IN
    IF h.k = "}" THEN [val |-> JDict(acc), rest |-> Tail(ts)]
    ELSE IF h.k = "," THEN ParseMembers(Tail(ts), acc)
    ELSE LET r == ParseValue(Tail(Tail(ts))) IN
         ParseMembers(r.rest, DictSet(acc, h.v, r.val))

\* json.load(f)
Load(text) == ParseValue(text).val

\* config.json is not there.
NoFile == [exists |-> FALSE, text |-> <<>>]

\* save_config(config)
SaveConfig(c) ==
    /\ ~conf_file.exists
    /\ conf_arg' = c
    /\ conf_file' = [exists |-> TRUE, text |-> Dump(c)]
    /\ UNCHANGED conf_ret
    /\ UNCHANGED <<busVars, lockVars, heartbeat, call, writer, stopcmd, played>>

\* load_config()
LoadConfig ==
    /\ conf_ret' = IF conf_file.exists THEN Load(conf_file.text) ELSE DEFAULT_CONFIG
    /\ UNCHANGED <<conf_arg, conf_file>>
    /\ UNCHANGED <<busVars, lockVars, heartbeat, call, writer, stopcmd, played>>

\* ------------------------------------------------- the `stop` command
\* stop_daemon has not been called.
NoStop == [at |-> "idle", pid |-> NoPid, ret |-> "none"]

\* Some process is in daemon_loop.
DaemonRunning(l) == \E p \in Procs : l[p] \in {"install", "running", "shutting"}

\* os.kill(pid, sig) raises ProcessLookupError.
Gone(l, q) == ~Alive(l, q)

\* A poll that takes a live process for a dead one.
PollFindsGoneAlways(l, q) == TRUE

\* stop_daemon's poll, os.kill(pid, 0), raises ProcessLookupError.
PollFindsGone(l, q) == Gone(l, q)

\* stop_daemon: is_daemon_running(); "Daemon is not running" returns False.
StopCheck ==
    /\ stopcmd.at = "idle"
    /\ LET r == IsDaemonRunning(lpc, pid_file) IN
        /\ pid_file' = r[2]
        /\ stopcmd' = IF r[1] THEN [at |-> "term", pid |-> r[2], ret |-> "none"]
                      ELSE [at |-> "done", pid |-> NoPid, ret |-> "false"]
    /\ UNCHANGED <<lpc, opts, parent, lock_holder, lock_file, shutdown_requested,
                   sigterm_by, heartbeat>>
    /\ UNCHANGED <<busVars, call, writer, confVars, played>>

\* os.kill(pid, signal.SIGTERM): a process with the handler gets its flag
\* set, one without it dies of the signal; ProcessLookupError unlinks the PID
\* file and returns False.
StopTerm ==
    /\ stopcmd.at = "term"
    /\ LET pid == stopcmd.pid IN
        IF Gone(lpc, pid)
        THEN /\ pid_file' = NoPid
             /\ stopcmd' = [stopcmd EXCEPT !.at = "done", !.ret = "false"]
             /\ UNCHANGED <<lpc, lock_holder, shutdown_requested>>
        ELSE /\ stopcmd' = [stopcmd EXCEPT !.at = "poll"]
             /\ IF Handles(lpc, pid)
                THEN /\ shutdown_requested' = [shutdown_requested EXCEPT ![pid] = TRUE]
                     /\ UNCHANGED <<lpc, lock_holder>>
                ELSE /\ lpc' = [lpc EXCEPT ![pid] = "killed"]
                     /\ lock_holder' = IF lock_holder = pid THEN NoPid ELSE lock_holder
                     /\ UNCHANGED shutdown_requested
             /\ UNCHANGED pid_file
    /\ UNCHANGED <<opts, parent, lock_file, sigterm_by, heartbeat>>
    /\ UNCHANGED <<busVars, call, writer, confVars, played>>

\* A poll within the 150 finds the process gone: the PID file is unlinked,
\* "Daemon stopped gracefully", return True.
StopPoll ==
    /\ stopcmd.at = "poll"
    /\ PollFindsGone(lpc, stopcmd.pid)
    /\ pid_file' = NoPid
    /\ stopcmd' = [stopcmd EXCEPT !.at = "done", !.ret = "true"]
    /\ UNCHANGED <<lpc, opts, parent, lock_holder, lock_file, shutdown_requested,
                   sigterm_by, heartbeat>>
    /\ UNCHANGED <<busVars, call, writer, confVars, played>>

\* The 150th poll finds the process alive: the loop ends.
StopTimeout ==
    /\ stopcmd.at = "poll"
    /\ ~PollFindsGone(lpc, stopcmd.pid)
    /\ stopcmd' = [stopcmd EXCEPT !.at = "kill"]
    /\ UNCHANGED <<lockVars, heartbeat, confVars, played>>
    /\ UNCHANGED <<busVars, call, writer, confVars, played>>

\* os.kill(pid, signal.SIGKILL), both files unlinked, return True;
\* ProcessLookupError unlinks the PID file and returns False.
StopKill ==
    /\ stopcmd.at = "kill"
    /\ LET pid == stopcmd.pid IN
        IF Gone(lpc, pid)
        THEN /\ stopcmd' = [stopcmd EXCEPT !.at = "done", !.ret = "false"]
             /\ UNCHANGED <<lpc, lock_holder, heartbeat>>
        ELSE /\ stopcmd' = [stopcmd EXCEPT !.at = "done", !.ret = "true"]
             /\ lpc' = [lpc EXCEPT ![pid] = "killed"]
             /\ lock_holder' = IF lock_holder = pid THEN NoPid ELSE lock_holder
             /\ heartbeat' = "absent"
    /\ pid_file' = NoPid
    /\ UNCHANGED <<opts, parent, lock_file, shutdown_requested, sigterm_by>>
    /\ UNCHANGED <<busVars, call, writer, confVars, played>>

\* ------------------------------------- the steps of write_playback_state
\* No call of write_playback_state is between its read and its rename.
NoWrite == [none |-> TRUE]

\* What daemon_loop and play_audio pass to write_playback_state: audio_pid is
\* proc.pid or not given, current_message is a message, None or not given.
WriteArgs ==
    [pid_arg : {NullPid, ChildPid},
     cm_arg : {Unset, NoMsg} \cup
              {CurrentMsgInfo(File(<<0, 0>>, TRUE, SpeakMessage(i, s, 0))) :
                    i \in 1..MaxMsgs, s \in Speakers}]

\* write_playback_state, first line: state = read_playback_state().
StateRead(a) ==
    /\ writer = NoWrite
    /\ writer' = [state |-> playback, pid_arg |-> a.pid_arg, cm_arg |-> a.cm_arg]
    /\ UNCHANGED <<busVars, lockVars, heartbeat, call, stopcmd, confVars, played>>

\* write_playback_state, the rest: the fields given are put into the state
\* that was read, the result goes to playback.tmp and is renamed over the file.
StateRename ==
    /\ writer # NoWrite
    /\ playback' = WritePlaybackState(writer.state, writer.pid_arg, <<>>, writer.cm_arg)
    /\ writer' = NoWrite
    /\ UNCHANGED <<now, queue, spk, nmsgs, config, pc, msg, interrupted,
                   last_speaker, proc, synth, chime, dying, dequeued, removed>>
    /\ UNCHANGED <<lockVars, heartbeat, call, stopcmd, confVars, played>>

\* ------------------------------------------------------- the heartbeat
\* The heartbeat file grows older than 2 x idle_poll_ms, then older than 10 s.
\* Between two polls of an idle daemon it does not: it does while daemon_loop
\* waits in generate_speech or play_audio, and when the daemon is dead.
HeartbeatAges ==
    /\ heartbeat \in {"fresh", "late"}
    /\ \/ lpc[Daemon] \in {"running", "shutting"} /\ pc \in SynthSites \cup PlaySites
       \/ lpc[Daemon] = "killed"
    /\ heartbeat' = IF heartbeat = "fresh" THEN "late" ELSE "stale"
    /\ UNCHANGED <<busVars, lockVars, call, writer, stopcmd, confVars, played>>

\* ------------------------------------------- shutdown of the bus daemon
\* The positions of daemon_loop at which `while not _shutdown_requested` is
\* evaluated, and the same with the poll loop of play_audio added.
StopSitesWithPlay == {"top", "main_play", "replay_play"}

StopSites == {"top"}

\* The loop condition fails: the shutdown announcement is next.
StopLoop ==
    /\ pc \in StopSites
    /\ shutdown_requested[Daemon] /\ lpc[Daemon] = "running"
    /\ pc' = "shutdown_synth"
    /\ lpc' = [lpc EXCEPT ![Daemon] = "shutting"]
    /\ UNCHANGED <<now, queue, spk, nmsgs, playback, config, msg, interrupted,
                   last_speaker, proc, synth, chime, dying, dequeued, removed>>
    /\ UNCHANGED <<opts, parent, lock_holder, lock_file, pid_file,
                   shutdown_requested, sigterm_by, heartbeat, call, writer,
                   stopcmd, confVars, played>>

\* HEARTBEAT_FILE.unlink(); release_lock(); daemon_loop returns.
StopRelease ==
    /\ pc = "release"
    /\ pc' = "stopped"
    /\ lock_holder' = IF lock_holder = Daemon THEN NoPid ELSE lock_holder
    /\ lpc' = [lpc EXCEPT ![Daemon] = "released"]
    /\ heartbeat' = "absent"
    /\ UNCHANGED <<now, queue, spk, nmsgs, playback, config, msg, interrupted,
                   last_speaker, proc, synth, chime, dying, dequeued, removed>>
    /\ UNCHANGED <<opts, parent, lock_file, pid_file, shutdown_requested,
                   sigterm_by, call, writer, stopcmd, confVars, played>>

\* ------------------------------------ a daemon killed and started again
\* The text of the speech message whose audio play_audio is playing.
TextPlaying ==
    IF pc = "main_play" THEN Get(msg.json, "text", EmptyText) ELSE interrupted.text

\* PlayCompleted with the history kept: a speech message whose player exited
\* with status zero has been played to completion.
PlayCompletedLogged ==
    /\ pc \in PlaySites /\ proc \in {"exit0", "exit1"}
    /\ proc' = "none"
    /\ PlayReturn(FALSE)
    /\ played' = IF pc \in {"main_play", "replay_play"} /\ proc = "exit0"
                 THEN played \cup {TextPlaying}
                 ELSE played
    /\ UNCHANGED <<now, queue, spk, nmsgs, config, msg, last_speaker, synth,
                   chime, dying, dequeued, removed>>
    /\ UNCHANGED <<lockVars, heartbeat, call, writer, stopcmd, confVars>>

\* SIGKILL (the last resort of `stop`, or any other) ends the daemon wherever
\* it is, and a daemon is started again: daemon_loop begins with fresh
\* locals; the queue directory and playback.json are what the killed daemon
\* left, and a player it had started plays on by itself.
KillRestart ==
    /\ lpc[Daemon] = "running"
    /\ pc' = "startup_synth"
    /\ msg' = NoMsg
    /\ interrupted' = NoMsg
    /\ last_speaker' = NoSpeaker
    /\ proc' = "none"
    /\ synth' = FALSE
    /\ chime' = FALSE
    /\ dying' = (dying \/ proc = "running")
    /\ removed' = {}
    /\ heartbeat' = "fresh"
    /\ UNCHANGED <<now, queue, spk, nmsgs, playback, config, dequeued>>
    /\ UNCHANGED <<lockVars, call, writer, stopcmd, confVars, played>>

\* ------------------------------------------------- the `status` command
\* daemon_status(): is_daemon_running() (which unlinks a stale PID file) and,
\* if a daemon runs, get_queue_messages() for the depth and the previews:
\* the files that do not parse are unlinked.
Status ==
    /\ LET r == IsDaemonRunning(lpc, pid_file) IN
        /\ pid_file' = r[2]
        /\ queue' = IF r[1] THEN Parseable(queue) ELSE queue
    /\ spk' = Orphan(spk, Names(queue \ queue'))
    /\ UNCHANGED <<now, nmsgs, playback, config, pc, msg, interrupted,
                   last_speaker, proc, synth, chime, dying, dequeued, removed>>
    /\ UNCHANGED <<lpc, opts, parent, lock_holder, lock_file,
                   shutdown_requested, sigterm_by>>
    /\ UNCHANGED <<heartbeat, call, writer, stopcmd, confVars, played>>

\* ------------------------------------------------------------ properties

\* C1 (as stated): messages start playing in ascending timestamp order whatever
\* the arrival pattern: of two consecutive picks the first does not carry the
\* larger timestamp.
C1_AscendingForEveryArrival ==
    Len(dequeued) = 2 => dequeued[1] <= dequeued[2]

\* C1: the message a scan picks has the lowest timestamp of the parseable files
\* that scan found in the queue directory.
C1_LowestPresentIsPicked ==
    [][(pc = "scan" /\ pc' = "main_synth")
          => \A f \in Parseable(queue) : Timestamp(msg') <= Timestamp(f)]_vars

\* C1 case: a message was picked while a later-stamped one waits.
C1_PickedBeforeLater ==
    /\ pc = "main_synth"
    /\ \E f \in Parseable(queue) : Timestamp(f) > Timestamp(msg)

\* The audio children of the daemon that are alive.
AudioChildren ==
    (IF proc = "running" THEN 1 ELSE 0) + (IF chime THEN 1 ELSE 0)
        + (IF dying THEN 1 ELSE 0)

\* C2 (as stated): at most one audio-playback child of the daemon is alive in
\* every reachable state, right after a pause-kill returned included.
C2_AtMostOneAudioChild == AudioChildren <= 1

\* C3 (as stated): the scheduler never deletes a queue file that a producer is
\* still writing: a producer with the file open still has its directory entry.
C3_NoDeleteWhileWriting ==
    \A s \in Speakers : spk[s].pc = "open" => spk[s].linked

\* C7 (as stated): when play_audio is not running and no audio child is left,
\* audio_pid of the playback state is null.
C7_AudioPidCleared ==
    (pc \notin PlaySites /\ proc = "none" /\ ~dying)
        => playback.audio_pid = NullPid

\* C8 (as stated): no queue file holds the content that current_message holds.
C8_QueueFileOrCurrentMessage ==
    \A f \in Parseable(queue) : playback.current_message # CurrentMsgInfo(f)

\* The positions of daemon_loop at which current_message may be set: from the
\* save before playing to the read that takes it for the replay, and from the
\* save before the replay to its clearing.
HoldingSites ==
    {"main_play", "main_killed", "main_clear", "top", "enforce", "check_pause",
     "get_interrupted", "replay_play", "replay_clear"}

\* The step of play_audio that ends a running child of a speech message.
SpeechChildEnded ==
    pc \in {"main_play", "replay_play"} /\ proc = "running" /\ proc' = "none"

C9_NoStaleReplay ==
    (pc = "replay_play" /\ proc = "running")
        => ~(dequeued[Len(dequeued)] < now - config.max_age_seconds)

\* C10 (as stated): when an iteration of the loop ends (the loop goes back to
\* its top), the queue directory holds at most max_depth files.
C10_DepthAfterAnyIteration ==
    [][(pc \notin {"top", "startup_synth", "startup_play"} /\ pc' = "top")
          => Cardinality(queue') <= config.max_depth]_vars

\* C10: right after enforce_max_depth returned, the queue directory holds at
\* most max_depth files.
C10_DepthAfterEnforce ==
    [][(pc = "enforce" /\ pc' = "check_pause")
          => Cardinality(queue') <= config.max_depth]_vars

\* C10 case: enforce_max_depth removed a message and left max_depth of them.
C10_OverflowTrimmed ==
    /\ pc = "check_pause"
    /\ \E f \in removed : f.ok
    /\ Cardinality(queue) = config.max_depth

\* The process is past acquire_lock and has not yet released the lock.
InLoop(p) == lpc[p] \in {"install", "running", "shutting"}

C5_LockpickTakesOver ==
    \A p \in Procs :
        opts[p].lockpick => (lpc[p] # "failed" /\ p \notin sigterm_by[p])

\* C11: when enforce_max_depth finds n > max_depth parseable messages it
\* unlinks exactly n - max_depth of them, and no file it unlinks has a higher
\* timestamp than a file it leaves.
C11_DropHead ==
    [][(pc = "enforce" /\ pc' = "check_pause"
            /\ Cardinality(Parseable(queue)) > config.max_depth)
          => /\ queue' \subseteq Parseable(queue)
             /\ Cardinality(Parseable(queue) \ queue')
                    = Cardinality(Parseable(queue)) - config.max_depth
             /\ \A d \in Parseable(queue) \ queue', k \in queue' :
                    Timestamp(d) <= Timestamp(k)]_vars

\* C11 case: the depth step dropped a message older than one it kept.
C11_OlderDropped ==
    /\ pc = "check_pause"
    /\ \E d \in removed, k \in queue : d.ok /\ Timestamp(d) < Timestamp(k)

\* C12 (as stated): whatever the one bad file holds, it is eventually gone
\* from the queue directory.
C12_BadFileEventuallyGone ==
    <>(\A f \in queue : f.name # BadName)

\* C13 (as stated): with no other bad content in the queue directory, a file
\* that is invalid JSON does not make the scheduler fail: the cleanup at the top
\* of the iteration returns, and no file that fails to parse is left after it.
C13_InvalidJsonRemoved ==
    [][(pc = "top" /\ pc' # "top" /\ \A f \in Parseable(queue) : ~CleanupRaises(f))
          => (pc' = "enforce" /\ \A f \in queue' : f.ok)]_vars

\* C14 (as stated): when the daemon has spoken a control message with
\* pre_action drain and post_action restart, it leaves the scheduler loop: it
\* does not go back to the top of the loop for the next queue message.
C14_ControlMessageEndsLoop ==
    [][(/\ pc = "main_unlink" /\ pc' # pc /\ IsControl(msg)
        /\ Get(msg.json, "post_action", "none") = "restart")
          => pc' # "top"]_vars

\* C15: the audio child of a speech message stops running only by ending by
\* itself or by a pause; the daemon stays in play_audio while it runs, and it
\* leaves its loop (for the shutdown that SIGTERM, SIGINT or a restart asks
\* for) only from the top of the loop, with no audio child.
C15_PlaybackNotTruncated ==
    [][/\ (pc \in {"main_play", "replay_play"} /\ proc = "running")
            => \/ proc' = "running" /\ pc' = pc
               \/ proc' \in {"exit0", "exit1"} /\ pc' = pc
               \/ playback.paused
       /\ (lpc[Daemon] = "running" /\ lpc'[Daemon] # "running")
            => (proc = "none" /\ pc = "top")]_vars

\* C15 case: the shutdown was requested while the child of a speech message runs.
C15_StopRequestedWhilePlaying ==
    /\ pc = "main_play" /\ proc = "running"
    /\ shutdown_requested[Daemon] /\ IsControl(msg) = FALSE

\* C16: a speak() call made while the daemon's heartbeat is absent or more
\* than 10 s old does not go into _speak_queued: no producer starts to
\* enqueue for a daemon that appears dead.
C16_NoEnqueueForDeadDaemon ==
    [][~DaemonIsHealthy(heartbeat) =>
         \A s \in Speakers : ~(spk[s].pc = "idle" /\ spk'[s].pc = "built")]_vars

\* C17: a speak() call for a muted session without force returns False and
\* has no effect: no queue file, no message, no subprocess of the caller.
C17_MutedCallHasNoEffect ==
    [][\A s \in Speakers :
          (/\ spk[s].pc = "idle" /\ call[s].at = "idle"
           /\ call'[s] # call[s]
           /\ call'[s].args.muted /\ ~call'[s].args.force)
          => /\ call'[s].ret = "false"
             /\ call'[s].at = "idle"
             /\ UNCHANGED <<busVars, lockVars, heartbeat, writer, stopcmd, confVars, played>>]_vars

\* A muted call, in queue mode and with text, has returned False.
C17_MutedCallReturned ==
    \E s \in Speakers :
        /\ call[s].args = [muted |-> TRUE, force |-> FALSE, blank |-> FALSE,
                           mode |-> "queue"]
        /\ call[s].ret = "false"
        /\ spk[s].pc = "idle"

\* C18: the heartbeat of a daemon in its loop is never older than
\* 2 x idle_poll_ms while a message is synthesized or played.
C18_HeartbeatFresh ==
    (/\ lpc[Daemon] = "running"
     /\ pc \in {"replay_synth", "replay_play", "main_synth", "main_play"})
        => heartbeat = "fresh"

\* C19: when a daemon process has ended after a graceful shutdown, started
\* with `start` or with --foreground, the PID file does not name it.
C19_PidFileRemoved ==
    \A p \in Procs : lpc[p] = "exited" => pid_file # p

\* C20: a state update of the daemon (read, modify, rename) leaves `paused`
\* in the file as it was just before the rename, whatever the pause command
\* wrote between the daemon's read and its rename.
C20_DaemonKeepsPaused ==
    [][(writer # NoWrite /\ writer' = NoWrite)
          => playback'.paused = playback.paused]_vars

\* C21 (amended): when `stop` returns success the process whose PID it read
\* is gone and no PID file remains; a process that has the handlers installed
\* is killed only by `stop` after its polls ran out, and the heartbeat and the
\* PID file are removed with it.
C21_StopEndsTheNamedProcess ==
    [][/\ (stopcmd.ret # "true" /\ stopcmd'.ret = "true")
            => (Gone(lpc', stopcmd'.pid) /\ pid_file' = NoPid)
       /\ \A p \in Procs :
            (Handles(lpc, p) /\ lpc'[p] = "killed")
                => /\ stopcmd.at = "kill" /\ stopcmd.pid = p
                   /\ stopcmd'.ret = "true"
                   /\ heartbeat' = "absent" /\ pid_file' = NoPid]_vars

\* `stop` returned success after it killed a daemon that had got its SIGTERM.
C21_KilledAfterTimeout ==
    /\ stopcmd.ret = "true"
    /\ lpc[stopcmd.pid] = "killed"
    /\ shutdown_requested[stopcmd.pid]

\* C21: when `stop` returns success no daemon is running and no PID file
\* remains.
C21_StoppedMeansNoDaemon ==
    [][(stopcmd.ret # "true" /\ stopcmd'.ret = "true")
          => (pid_file' = NoPid /\ ~DaemonRunning(lpc'))]_vars

\* Every producer has made its last call and is out of _speak_queued.
ProducersDone == nmsgs = MaxMsgs /\ \A s \in Speakers : spk[s].pc = "idle"

NameLeq(a, b) == a[1] < b[1] \/ (a[1] = b[1] /\ a[2] <= b[2])

\* C23: among the parseable files with the timestamp of the message a scan
\* picks, the picked one has the lexicographically first file name.
C23_TiesByFileName ==
    [][(pc = "scan" /\ pc' = "main_synth")
          => \A f \in Parseable(queue) :
                Timestamp(f) = Timestamp(msg') => NameLeq(msg'.name, f.name)]_vars

\* C24: load_config() after save_config(c) returns a value equal to c, and
\* load_config() with no config file returns a value equal to DEFAULT_CONFIG.
C24_ConfigRoundTrip ==
    [][conf_ret' # conf_ret
          => conf_ret' = IF conf_file.exists THEN conf_arg ELSE DEFAULT_CONFIG]_vars

\* A config with a list, a float and a null in it was saved and loaded.
C24_LoadedWhatWasSaved ==
    /\ conf_file.exists /\ conf_ret = conf_arg
    /\ \E i \in DOMAIN conf_arg.v : conf_arg.v[i][2] = JList(<<JFloat(2)>>)
    /\ \E i \in DOMAIN conf_arg.v : conf_arg.v[i][2] = JNull

\* C25 (amended): the pause check of an iteration that finds `paused` set sends
\* the loop back to its top with the queue, the playback state, the message
\* held and the subprocesses as they were; and the two steps before the check
\* unlink only stale files, overflow files and files that do not parse.
C25_PausedIterationDequeuesNothing ==
    [][/\ (pc = "check_pause" /\ pc' # pc /\ playback.paused)
            => /\ pc' = "top"
               /\ UNCHANGED <<queue, playback, msg, interrupted, last_speaker,
                              proc, synth, chime, dequeued>>
       /\ (pc = "top" /\ pc' \in {"enforce", "error"})
            => /\ \A f \in queue \ queue' :
                    ~f.ok \/ Timestamp(f) < now - config.max_age_seconds
               /\ UNCHANGED <<playback, msg, interrupted, proc, synth, chime, dequeued>>
       /\ (pc = "enforce" /\ pc' \in {"check_pause", "error"})
            => /\ \A f \in queue \ queue' :
                    ~f.ok \/ Cardinality(Parseable(queue)) > config.max_depth
               /\ UNCHANGED <<playback, msg, interrupted, proc, synth, chime, dequeued>>
      ]_vars

\* C25 case: `paused` is set at the check while a message waits in the queue
\* and an interrupted one is held in current_message.
C25_PausedWithWork ==
    /\ pc = "check_pause" /\ playback.paused
    /\ Parseable(queue) # {}
    /\ playback.current_message # NoMsg

\* C25 (as stated): when `paused` is set at the check, the files the depth
\* step of this iteration unlinked were overflow: parseable messages beyond
\* max_depth.
C25_PausedIterationOnlyEvicts ==
    (pc = "check_pause" /\ playback.paused) => \A f \in removed : f.ok

ReplaySites == {"replay_synth", "replay_save", "replay_play", "replay_clear"}

\* C26 (as stated): a message taken from current_message for the replay goes
\* on to be played.
C26_HeldMessageIsReplayed ==
    [][(pc = "replay_synth" /\ pc' # pc) => pc' = "replay_save"]_vars

\* C26 (amended): an unpaused iteration that finds current_message set takes
\* that message, with its text and persona, to the re-rendering and picks no
\* queue message; while the replay is under way no queue file is removed and
\* none is dequeued; a re-rendering that fails drops the message; a replay
\* that was not killed ends with current_message null, and a replay killed by
\* a pause goes back to the top of the loop with current_message still that
\* message.
C26_ReplayBeforeDequeue ==
    [][/\ (pc = "get_interrupted" /\ pc' # pc)
            => IF playback.current_message # NoMsg
               THEN /\ pc' = "replay_synth"
                    /\ interrupted'.text = playback.current_message.text
                    /\ interrupted'.persona = playback.current_message.persona
                    /\ UNCHANGED <<msg, dequeued>>
               ELSE pc' = "scan"
       /\ pc \in ReplaySites
            => /\ UNCHANGED <<msg, dequeued>>
               /\ Names(queue) \subseteq Names(queue')
               /\ pc' \in ReplaySites \cup {"top"}
       /\ (pc = "replay_synth" /\ pc' = "top")
            => playback'.current_message = NoMsg
       /\ (pc = "replay_play" /\ pc' = "top")
            => /\ playback.paused
               /\ playback'.current_message = interrupted
               /\ interrupted # NoMsg
       /\ (pc = "replay_play" /\ pc' = "replay_clear")
            => proc # "running"
       /\ (pc = "replay_clear" /\ pc' # pc)
            => (pc' = "top" /\ playback'.current_message = NoMsg)]_vars

\* C26 case: the replay of an interrupted message has ended unkilled while a
\* message waits in the queue.
C26_ReplayedWhileQueued ==
    /\ pc = "replay_clear"
    /\ playback.current_message # NoMsg
    /\ Parseable(queue) # {}

\* The speaker of the message held differs from the one of the message before.
SpeakerChanged == last_speaker # NoSpeaker /\ last_speaker # SpeakerKey(msg)

\* C27 (as stated): the loop goes to a cue exactly when an earlier message
\* had another speaker key and speaker_transition is not "none", and a loop
\* that went to the chime leaves it with a chime subprocess having played.
C27_CueIffSpeakerChanged ==
    [][/\ (pc = "transition" /\ pc' # pc)
            => (pc' \in {"chime", "cue_synth"}
                    <=> (SpeakerChanged /\ config.speaker_transition # "none"))
       /\ (pc = "chime" /\ pc' = "save") => chime]_vars

\* The steps of a speaker-transition cue.
CueSites == {"chime", "cue_synth", "cue_play"}

\* C28: the loop reaches the speaker transition only from the step that ends
\* a successful synthesis of the message, and a cue only from the transition;
\* a message whose synthesis failed is given up with no cue; a chime
\* subprocess starts only at the chime step; the message is saved and played
\* only after the transition or the cue is over, no cue subprocess being left.
C28_CueBetweenSynthesisAndPlay ==
    [][/\ (pc' = "transition" /\ pc # "transition")
            => (pc = "main_synth" /\ synth /\ ~synth')
       /\ (pc' \in CueSites /\ pc \notin CueSites) => pc = "transition"
       /\ (pc = "main_synth" /\ pc' \notin {"main_synth", "transition"})
            => (pc' = "top" /\ msg' = NoMsg /\ ~chime' /\ proc' = "none")
       /\ (chime' /\ ~chime) => pc = "chime"
       /\ (pc' = "save" /\ pc # "save")
            => (pc \in CueSites \cup {"transition"} /\ ~chime' /\ ~synth'
                    /\ proc' = "none")
       /\ (pc' = "main_play" /\ pc # "main_play") => pc = "save"]_vars

\* C28 case: the announcement of the speaker plays for a message that waits,
\* synthesized, to be played.
C28_CuePlaying ==
    /\ pc = "cue_play" /\ proc = "running"
    /\ msg \in queue /\ ~synth

\* C29: the step that ends a failed synthesis of the message taken from the
\* queue unlinks that message's file and no other, leaves the playback state
\* and last_speaker as they were, starts no subprocess and takes the loop back
\* to its top.
C29_FailedSynthesisDropsMessage ==
    [][(pc = "main_synth" /\ pc' \notin {"main_synth", "transition"})
          => /\ pc' = "top"
             /\ msg.name \notin Names(queue')
             /\ Names(queue') = Names(queue) \ {msg.name}
             /\ msg' = NoMsg
             /\ UNCHANGED <<playback, last_speaker, proc, chime, dequeued>>
             /\ ~synth' /\ proc = "none" /\ ~chime]_vars

\* C29 case: a message was taken from the queue and given up before any
\* message was saved for playing, and another message waits.
C29_GivenUpWithNextWaiting ==
    /\ pc = "top" /\ msg = NoMsg
    /\ dequeued # <<>> /\ last_speaker = NoSpeaker
    /\ playback.current_message = NoMsg
    /\ Parseable(queue) # {}

\* The steps of speak_announcement at startup and at shutdown.
AnnounceSites ==
    {"startup_synth", "startup_play", "shutdown_synth", "shutdown_play"}

\* C30: while the daemon is in an announcement current_message stays what it
\* is; the steps of the announcement (its synthesis, its player, its return)
\* leave the queue directory, the message held and last_speaker as they are;
\* an announcement whose synthesis failed, and one that was played, completed
\* or not, is followed by the loop (startup) or the release of the lock
\* (shutdown).
C30_AnnouncementsAreInline ==
    [][(pc \in AnnounceSites)
          => /\ playback'.current_message = playback.current_message
             /\ (pc' # pc \/ proc' # proc \/ synth' # synth)
                    => UNCHANGED <<queue, msg, interrupted, last_speaker, dequeued>>
             /\ (pc = "startup_synth" /\ pc' # pc)
                    => (pc' = "top" \/ (pc' = "startup_play" /\ synth))
             /\ (pc = "startup_play" /\ pc' # pc) => pc' = "top"
             /\ (pc = "shutdown_synth" /\ pc' # pc)
                    => (pc' = "release" \/ (pc' = "shutdown_play" /\ synth))
             /\ (pc = "shutdown_play" /\ pc' # pc) => pc' = "release"]_vars

\* C30 case: the shutdown announcement is over while an interrupted message
\* is held in current_message and a message waits in the queue.
C30_AnnouncedWhileHolding ==
    /\ pc = "release"
    /\ playback.current_message # NoMsg
    /\ Parseable(queue) # {}

\* C31 (as stated): no speech message is played to completion twice: when the
\* player of a speech message ends with status zero, that message had not
\* been played to completion before.
C31_PlayedToCompletionOnce ==
    [][(pc \in {"main_play", "replay_play"} /\ proc = "exit0" /\ proc' = "none")
          => TextPlaying \notin played]_vars

\* C32 (as stated, for the replay): an interrupted message the daemon has taken
\* for a replay and not yet played or dropped is in current_message.
C32_ReplayedMessageIsStored ==
    interrupted # NoMsg => playback.current_message = interrupted

\* C33 (as stated): the daemon starts no player for a speech message, a
\* replay, an announce cue or a chime while "paused" is set.
C33_NoPlayerStartedWhilePaused ==
    [][(\/ (pc \in {"main_play", "replay_play", "cue_play"}
                /\ proc = "none" /\ proc' = "running")
        \/ (~chime /\ chime'))
          => ~playback.paused]_vars

\* The positions of daemon_loop after its loop.
ShutSites == {"shutdown_synth", "shutdown_play", "release", "stopped"}

\* C34: a daemon that got SIGTERM or SIGINT ends; once the flag is set the
\* loop top is left only for the shutdown announcement, so that no message is
\* picked after the iteration under way, and the daemon does not come back
\* into the loop; from the loop top on current_message stays what it is.
C34_SignalEndsTheDaemon ==
    /\ shutdown_requested[Daemon] ~> lpc[Daemon] = "exited"
    /\ [][/\ (shutdown_requested[Daemon] /\ pc = "top" /\ pc' # pc)
               => pc' = "shutdown_synth"
          /\ (pc \in ShutSites) => pc' \in ShutSites
          /\ (shutdown_requested[Daemon] /\ pc \in ShutSites \cup {"top"})
               => playback'.current_message = playback.current_message]_vars

\* C34 case: the daemon has ended while paused, an interrupted message being
\* held in current_message.
C34_EndedWhilePaused ==
    /\ lpc[Daemon] = "exited"
    /\ playback.paused
    /\ playback.current_message # NoMsg

\* C35 (as stated): no process is sent SIGTERM by its own lockpick.
C35_LockpickNeverSignalsItself ==
    \A p \in Procs : p \notin sigterm_by[p]

\* C36 (as stated): while a daemon holds the lock and runs its loop, the PID
\* file holds that daemon's PID.
C36_PidFileNamesTheDaemon ==
    \A p \in Procs : (lock_holder = p /\ lpc[p] = "running") => pid_file = p

\* C37 (as stated): while a daemon holds the lock and runs its loop, the lock
\* file holds that daemon's PID.
C37_LockFileNamesTheHolder ==
    \A p \in Procs : (lock_holder = p /\ lpc[p] = "running") => lock_file = p

\* Two sessions whose hooks call speak().
Sessions == {"s1", "s2"}

\* C38 (as stated): two producers never have the same queue file open for
\* writing.
C38_ProducersWriteDistinctFiles ==
    \A s1, s2 \in Sessions :
        (s1 # s2 /\ spk[s1].pc = "open" /\ spk[s2].pc = "open")
            => spk[s1].name # spk[s2].name

\* C39 (as stated): two queue messages that speak() wrote for different
\* sessions have different speaker keys in the daemon.
C39_SessionsHaveOwnSpeakerKeys ==
    \A f, g \in Parseable(queue) :
        f.json.session # g.json.session => SpeakerKey(f) # SpeakerKey(g)

\* C40 (as stated): with producers and `status` as the only ones to act, no
\* step deletes a queue file or changes the playback state.
C40_StatusIsReadOnly ==
    [][/\ \A f \in queue : f.name \in Names(queue')
       /\ (playback' # playback) => playback'.paused # playback.paused]_vars

\* ---------------------------------------------------------- specification
\* The bus when a daemon enters daemon_loop with the files `dir` in the queue
\* directory, n messages written so far: nothing is held.
BusStartingWith(dir, n) ==
    /\ now = 0
    /\ queue = dir
    /\ spk = [s \in Speakers |-> IdleSpeaker]
    /\ nmsgs = n
    /\ playback = DefaultState
    /\ config \in QueueConfigs
    /\ pc = "startup_synth"
    /\ msg = NoMsg
    /\ interrupted = NoMsg
    /\ last_speaker = NoSpeaker
    /\ proc = "none"
    /\ synth = FALSE
    /\ chime = FALSE
    /\ dying = FALSE
    /\ dequeued = <<>>
    /\ removed = {}
    /\ call = [s \in Speakers |-> IdleCall]
    /\ writer = NoWrite
    /\ stopcmd = NoStop
    /\ conf_arg = NotLoaded
    /\ conf_file = NoFile
    /\ conf_ret = NotLoaded
    /\ played = {}

\* The bus with an empty queue directory.
BusAtStart == BusStartingWith({}, 0)

\* One daemon, started with `start`, is in its loop.
OneDaemon ==
    /\ lpc = [p \in Procs |-> IF p = 1 THEN "running" ELSE "idle"]
    /\ opts = [p \in Procs |-> IF p = 1 THEN [mode |-> "start", lockpick |-> FALSE]
                                ELSE NoOpts]
    /\ parent = [p \in Procs |-> IF p = 1 THEN "done" ELSE "none"]
    /\ lock_holder = 1
    /\ lock_file = 1
    /\ pid_file = 1
    /\ shutdown_requested = [p \in Procs |-> FALSE]
    /\ sigterm_by = [p \in Procs |-> {}]
    /\ heartbeat = "fresh"

\* The daemon was killed (SIGKILL: no handler runs): its files stay, the lock
\* is the kernel's to free, the heartbeat is as old as the time since.
KilledDaemon ==
    /\ lpc = [p \in Procs |-> IF p = 1 THEN "killed" ELSE "idle"]
    /\ opts = [p \in Procs |-> IF p = 1 THEN [mode |-> "start", lockpick |-> FALSE]
                                ELSE NoOpts]
    /\ parent = [p \in Procs |-> IF p = 1 THEN "done" ELSE "none"]
    /\ lock_holder = NoPid
    /\ lock_file = 1
    /\ pid_file = 1
    /\ shutdown_requested = [p \in Procs |-> FALSE]
    /\ sigterm_by = [p \in Procs |-> {}]
    /\ heartbeat \in {"fresh", "late", "stale"}

\* Nothing is running.
NoDaemon ==
    /\ lpc = [p \in Procs |-> "idle"]
    /\ opts = [p \in Procs |-> NoOpts]
    /\ parent = [p \in Procs |-> "none"]
    /\ lock_holder = NoPid
    /\ lock_file = NoPid
    /\ pid_file = NoPid
    /\ shutdown_requested = [p \in Procs |-> FALSE]
    /\ sigterm_by = [p \in Procs |-> {}]
    /\ heartbeat = "absent"

\* speak() is called for a session that is not muted, with text, in queue mode.
Producer ==
    \/ \E s \in Speakers : Speak(s, Audible) \/ SpeakOpen(s) \/ SpeakDump(s) \/ SpeakCrash(s)
    \/ InstallerEnqueue

Environment ==
    \/ Tick
    \/ \E b \in BOOLEAN : SetPaused(b)
    \/ ChildExit
    \/ DyingExit

Driver ==
    \/ SynthUnavailable \/ SynthStart \/ SynthEnd
    \/ PlayNoPlayer \/ PlaySpawn \/ PlayCompleted \/ PlayPauseKill
    \/ ChimeStart \/ ChimeEnd \/ ChimeSkip

Scheduler ==
    \/ Cleanup \/ Enforce \/ CheckPause
    \/ GetInterrupted \/ ReplaySave \/ ReplayClear
    \/ Scan \/ Transition \/ SaveCurrent
    \/ MainKilled \/ MainClear \/ MainUnlink

Next == Producer \/ Environment \/ Driver \/ Scheduler

Init == BusAtStart /\ OneDaemon

\* The message bus with one daemon.
Spec == Init /\ [][Next]_vars

NextStop ==
    \/ Producer
    \/ \E b \in BOOLEAN : SetPaused(b)
    \/ ChildExit \/ DyingExit
    \/ Driver \/ Scheduler
    \/ Interrupt(Daemon)
    \/ StopLoop \/ StopRelease
    \/ ProcessExit(Daemon)

\* The message bus with one daemon that may get SIGTERM or SIGINT.  The clock
\* stands still: no message ages while the daemon is asked to stop.
SpecStop == Init /\ [][NextStop]_vars

\* The same with a daemon that goes on taking steps and whose subprocesses
\* end; play_chime gives up after the last of its three sounds.
SpecStopLive ==
    /\ Init /\ [][NextStop]_vars
    /\ WF_vars(Scheduler \/ Driver \/ StopLoop \/ StopRelease \/ ProcessExit(Daemon))
    /\ WF_vars(ChildExit)
    /\ WF_vars(DyingExit)
    /\ SF_vars(ChimeSkip)

\* No daemon; two sessions, nothing enqueued yet.
InitEnq ==
    /\ now = 0
    /\ queue = {}
    /\ spk = [s \in Sessions |-> IdleSpeaker]
    /\ nmsgs = 0
    /\ playback = DefaultState
    /\ config \in {c \in QueueConfigs : c.speaker_transition = "none"}
    /\ pc = "stopped"
    /\ msg = NoMsg
    /\ interrupted = NoMsg
    /\ last_speaker = NoSpeaker
    /\ proc = "none"
    /\ synth = FALSE
    /\ chime = FALSE
    /\ dying = FALSE
    /\ dequeued = <<>>
    /\ removed = {}
    /\ call = [s \in Sessions |-> IdleCall]
    /\ writer = NoWrite
    /\ stopcmd = NoStop
    /\ conf_arg = NotLoaded
    /\ conf_file = NoFile
    /\ conf_ret = NotLoaded
    /\ played = {}
    /\ NoDaemon

NextEnq ==
    \/ \E s \in Sessions :
            Speak(s, Audible) \/ SpeakOpen(s) \/ SpeakDump(s) \/ SpeakCrash(s)
    \/ Tick

\* Two sessions enqueue through speak() while the clock runs.
SpecEnq == InitEnq /\ [][NextEnq]_vars

NextStatus ==
    \/ Producer
    \/ Tick
    \/ \E b \in BOOLEAN : SetPaused(b)
    \/ Status

\* `status` is run, any number of times, while sessions enqueue; the daemon is
\* alive and takes no step.
SpecStatus == Init /\ [][NextStatus]_vars

InitBad == (\E f \in BadFiles : BusStartingWith({f}, 1)) /\ OneDaemon

NextBad == Next \/ Recover

\* The message bus with one daemon that finds one bad file in the queue
\* directory.  The daemon goes on taking steps, an audio child ends, time passes.
SpecBad ==
    /\ InitBad /\ [][NextBad]_vars
    /\ WF_vars(Scheduler \/ Driver \/ Recover)
    /\ WF_vars(ChildExit)
    /\ WF_vars(Tick)

\* The steps of the bus while the clock stands still.
NextStill ==
    \/ Producer
    \/ \E b \in BOOLEAN : SetPaused(b)
    \/ ChildExit \/ DyingExit
    \/ Driver \/ Scheduler

\* The message bus with one daemon that goes on taking steps and whose
\* subprocesses end; play_chime gives up after the last of its three sounds.
\* No message grows stale: each one is left to the daemon to deal with.
SpecLive ==
    /\ Init /\ [][NextStill]_vars
    /\ WF_vars(Scheduler \/ Driver)
    /\ WF_vars(ChildExit)
    /\ WF_vars(DyingExit)
    /\ SF_vars(ChimeSkip)

NextKill ==
    \/ Producer
    \/ \E b \in BOOLEAN : SetPaused(b)
    \/ ChildExit \/ DyingExit
    \/ SynthUnavailable \/ SynthStart \/ SynthEnd
    \/ PlayNoPlayer \/ PlaySpawn \/ PlayCompletedLogged \/ PlayPauseKill
    \/ ChimeStart \/ ChimeEnd \/ ChimeSkip
    \/ Scheduler
    \/ KillRestart

\* The message bus with a daemon that may be killed at any point and started
\* again, the clock standing still.
SpecKill == Init /\ [][NextKill]_vars

\* The message bus with one daemon while the clock stands still.
SpecStill == Init /\ [][NextStill]_vars

\* get_queue_config() with speaker_transition "none": no cue is ever due.
InitPlain == Init /\ config.speaker_transition = "none"

NextPlain ==
    \/ Producer
    \/ Environment
    \/ SynthUnavailable \/ SynthStart \/ SynthEnd
    \/ PlayNoPlayer \/ PlaySpawn \/ PlayCompleted \/ PlayPauseKill
    \/ Scheduler

\* The message bus with one daemon that plays no speaker-transition cue.
SpecPlain == InitPlain /\ [][NextPlain]_vars

NextBeat == Next \/ HeartbeatAges

\* The message bus with one daemon, and a heartbeat file that ages.
SpecBeat == Init /\ [][NextBeat]_vars

InitSpeak == BusAtStart /\ (NoDaemon \/ KilledDaemon)

NextSpeak ==
    \/ \E s \in Speakers :
        \/ \E a \in SpeakArgs : Speak(s, a)
        \/ SpeakOpen(s) \/ SpeakDump(s) \/ SpeakCrash(s)
        \/ SpeakDirectNoVoice(s) \/ SpeakDirectPiper(s) \/ SpeakDirectPlayer(s)
        \/ SpeakDirectFailed(s) \/ SpeakDirectPlayed(s)
    \/ Tick
    \/ HeartbeatAges

\* The callers of speak(), any arguments, while no daemon runs.
SpecSpeak == InitSpeak /\ [][NextSpeak]_vars

NextState ==
    \/ \E a \in WriteArgs : StateRead(a)
    \/ StateRename
    \/ \E b \in BOOLEAN : SetPaused(b)

\* The playback state file, written by the daemon and by the pause command.
SpecState == Init /\ [][NextState]_vars

NextLock ==
    \E p \in Procs :
        \/ \E mode \in {"start", "foreground"}, lockpick \in BOOLEAN :
                Launch(p, mode, lockpick)
        \/ CheckRunning(p) \/ ParentCheck(p) \/ ChildWritePid(p)
        \/ AcquireLock(p) \/ LockpickRetry(p) \/ Install(p)
        \/ Interrupt(p) \/ LeaveLoop(p) \/ ReleaseLock(p) \/ ProcessExit(p)

InitLock == BusAtStart /\ NoDaemon

\* The life cycle of the daemon processes, the bus left alone.
SpecLock == InitLock /\ [][NextLock]_vars

InitCmd == InitLock /\ config.speaker_transition = "none"

NextCmd ==
    \/ \E p \in Procs :
        \/ \E mode \in {"start", "foreground"} : Launch(p, mode, FALSE)
        \/ CheckRunning(p) \/ ParentCheck(p) \/ ChildWritePid(p)
        \/ AcquireLock(p) \/ Install(p)
        \/ Interrupt(p) \/ LeaveLoop(p) \/ ReleaseLock(p) \/ ProcessExit(p)
    \/ StopCheck \/ StopTerm \/ StopPoll \/ StopTimeout \/ StopKill

\* The daemon processes, started without --lockpick, and one `stop` command.
SpecCmd == InitCmd /\ [][NextCmd]_vars

NextConf == (\E c \in JsonConfigs : SaveConfig(c)) \/ LoadConfig

\* save_config and load_config of the installer, for any config.
SpecConf == InitCmd /\ [][NextConf]_vars

====
